---- MODULE Spec2Model ----
(***************************************************************************)
(* simple-audio-worklet: the processor class that simpleAudioWorklet()     *)
(* builds (src/src/index.ts).  One processor instance is modelled: its     *)
(* fields (next, isDone, cleanup, args), the block call process() with its *)
(* frame loop, first(), stop() and the 'message' listener on the port.     *)
(*                                                                         *)
(* process() is cut at the one place where other code of the program can   *)
(* run inside it: the invocation of the implementation (line 85).  The     *)
(* implementation holds args.port and may dispatch a 'message' event on it *)
(* synchronously, which runs the listener of line 26 before the call       *)
(* returns.  Between two process() calls the listener runs as an ordinary  *)
(* task.  There is no other interleaving: JavaScript runs to completion.   *)
(* A message that does not reach stop() changes no field of the processor. *)
(***************************************************************************)
EXTENDS Integers, Sequences, FiniteSets, TLC

(* ------------------------------ bounds -------------------------------- *)

\* frames per block (output[0].length)
BlockSize == 2
\* largest channel count of the input bus and of the output bus
MaxChannels == 2
\* process() calls made by the host
MaxCalls == 2
\* 'message' events delivered to the port
MaxMsgs == 2

(* --------------------------- sample values ---------------------------- *)
\* Samples are small naturals, all exactly representable in a Float32Array,
\* so that storing one into a buffer does not change it.

\* what a Float32Array element holds after a non-numeric store
NaN == 0 - 1
\* what the output buffers hold when the host hands them to process();
\* process() never reads them
HostFill == 0 - 2

\* inputs[0][channel][frame] of the block with number `block`
InputSample(block, channel, frame) ==
    10 * block + BlockSize * (channel - 1) + frame + 1

InputBus(block, n) ==
    [channel \in 1 .. n |-> [f \in 1 .. BlockSize |-> InputSample(block, channel, f - 1)]]

OutputBus(n) ==
    [channel \in 1 .. n |-> [f \in 1 .. BlockSize |-> HostFill]]

ParamNames == {"gain", "freq"}

\* a Float32Array of length 1 (k-rate) or of length BlockSize (a-rate)
Automations ==
    {<<7>>} \cup {[f \in 1 .. BlockSize |-> 30 + f]}

\* the parameters argument of one process() call: "gain" is k-rate or a-rate,
\* block by block; "freq" is k-rate in every block
ProcessParameters ==
    {[k \in ParamNames |-> IF k = "gain" THEN a ELSE <<9>>] : a \in Automations}

(* ---------------------- implementation results ------------------------ *)

ArrayItems(len) == [i \in 1 .. len |-> 40 + i]

\* Output: a number, a number[] or (README) a Float32Array
Outputs ==
    {[kind |-> "number", n |-> 5, items |-> <<>>]}
    \cup {[kind |-> "array", n |-> 0, items |-> ArrayItems(len)] : len \in 0 .. (MaxChannels + 1)}
    \cup {[kind |-> "float32array", n |-> 0, items |-> ArrayItems(len)] : len \in 1 .. 2}

UndefinedOutput == [kind |-> "undefined", n |-> 0, items |-> <<>>]

\* FrameOutput = Output | YieldOutput.  hasValue: the result is an object with
\* an own property 'value'; done: its 'done' property.
BareResults == {[hasValue |-> FALSE, done |-> "undefined", value |-> o] : o \in Outputs}

\* {value, done}: a number or a full-width array with done false, a number
\* with no done property, and the results of a finished iterator (after
\* `return` and after `return 5`)
YieldResults ==
    {[hasValue |-> TRUE, done |-> "false", value |-> o] :
        o \in {v \in Outputs : v.kind = "number"
                                \/ (v.kind = "array" /\ Len(v.items) = MaxChannels)}}
    \cup {[hasValue |-> TRUE, done |-> "undefined", value |-> o] :
            o \in {v \in Outputs : v.kind = "number"}}
    \cup {[hasValue |-> TRUE, done |-> "true", value |-> UndefinedOutput]}
    \cup {[hasValue |-> TRUE, done |-> "true", value |-> o] :
            o \in {v \in Outputs : v.kind = "number"}}

FrameOutputs == BareResults \cup YieldResults

\* the value first() returns for a generator
Zero == [hasValue |-> FALSE, done |-> "undefined",
         value |-> [kind |-> "number", n |-> 0, items |-> <<>>]]

\* r is a result the running call of this.next can return: first() returns 0
\* for a generator; iterator.next() returns {value, done: boolean}; a function
\* or a method returns any FrameOutput
Returns(type, running, r) ==
    IF running = "first" THEN r = Zero
    ELSE /\ r # Zero
         /\ type = "g" => (r.hasValue /\ r.done # "undefined")

(* -------------------------- implementations --------------------------- *)

\* a parameterDescriptors property: absent, or a list of parameter names
NoDescriptors == [has |-> FALSE, list |-> <<>>]

Descriptors(names) == [has |-> TRUE, list |-> names]

\* fromGenerator / fromClass / fromPure fix implementation.type.  hasReturn:
\* the iterator has a return method; hasNext: the class instance has next;
\* declared: the parameterDescriptors property of the function or class
\* that was handed in (implementation.impl); writesInput: the per-frame code
\* writes into args.input (as the README's addNoise does).
Implementations ==
    {[type |-> "g", hasReturn |-> r, hasNext |-> FALSE, declared |-> NoDescriptors,
      writesInput |-> FALSE] : r \in BOOLEAN}
    \cup {[type |-> "p", hasReturn |-> FALSE, hasNext |-> FALSE, declared |-> NoDescriptors,
           writesInput |-> FALSE]}
    \cup {[type |-> "c", hasReturn |-> FALSE, hasNext |-> n, declared |-> NoDescriptors,
           writesInput |-> FALSE] : n \in BOOLEAN}

\* the same implementations, with per-frame code that writes into args.input
WritingImplementations ==
    {[i EXCEPT !.writesInput = TRUE] : i \in Implementations}

\* what a call of the per-frame code does to args.input: nothing, or a write
\* to every entry (input[channel] = ...) followed by one more entry
\* (input.push(...)) on an array of at most MaxChannels entries
InputWrites == {"none", "write"}

\* the value the implementation writes; no input sample has it
Written == 99

\* a function and a class that declare their own parameterDescriptors
\* (a static member), next to the ones that do not
DeclaringImplementations ==
    {[i EXCEPT !.declared = d] :
        i \in {j \in Implementations : j.type = "p" \/ (j.type = "c" /\ j.hasNext)},
        d \in {NoDescriptors, Descriptors(<<"freq">>)}}

\* the parameterDescriptors option: its default [] or a list
DescriptorOptions == {<<>>, <<"gain">>}

(* ------------------------- control messages --------------------------- *)
\* e.data: a string (a sequence of characters), an array of strings, or null

Str(s) == [kind |-> "string", chars |-> s, items |-> <<>>]

MessageData ==
    { Str(<<"s", "t", "o", "p">>), Str(<<"S", "T", "O", "P">>),
      Str(<<"s", "t", "o", "p", "s">>), Str(<<"s", "t", "o">>),
      [kind |-> "array", chars |-> <<>>, items |-> << <<"S", "t", "O", "p">> >>],
      [kind |-> "array", chars |-> <<>>, items |-> << <<"s", "t">>, <<"o", "p">> >>],
      [kind |-> "null", chars |-> <<>>, items |-> <<>>] }

RECURSIVE Join(_)
Join(items) ==
    IF Len(items) = 0 THEN <<>>
    ELSE IF Len(items) = 1 THEN items[1]
    ELSE items[1] \o <<",">> \o Join(Tail(items))

\* e.data.toString()
DataToString(data) ==
    IF data.kind = "string" THEN data.chars ELSE Join(data.items)

LowerChar(c) ==
    CASE c = "S" -> "s"
      [] c = "T" -> "t"
      [] c = "O" -> "o"
      [] c = "P" -> "p"
      [] OTHER -> c

ToLowerCase(s) == [i \in 1 .. Len(s) |-> LowerChar(s[i])]

(* ------------------------------- state -------------------------------- *)

VARIABLES
    implementation, \* the implementation simpleAudioWorklet() was given
    processOnly,    \* the processOnly option
    onmessage,      \* whether the onmessage option was given
    parameterDescriptors, \* the parameterDescriptors option
    reported,       \* what the static getter parameterDescriptors returns
    next,           \* this.next: "first" or "resolved"
    isDone,         \* this.isDone: "true", "false" or "undefined"
    cleanup,        \* this.cleanup: "undefined" or "return"
    args,           \* this.args: parameters, input, env
    refs,           \* the objects this.args and its members refer to
    firstRefs,      \* the objects this.next was given at its first call
    lastWrite,      \* what the last call of this.next did to args.input
    pc,             \* "idle", "loop" (top of the frame loop), "called", "returned"
    callee,         \* what the call of line 85 is running
    frame,          \* the loop variable of process()
    input,          \* process(): inputs[0] || []
    output,         \* process(): outputs[0]
    parameters,     \* process(): the automation arrays
    changed,        \* process(): the keys with sample-accurate arrays
    result,         \* how the last process() call ended
    posted,         \* messages posted on this.port
    calls,          \* process() calls so far
    msgs,           \* 'message' events handled so far
    dispatched,     \* the listeners that ran for the last 'message' event
    forwards,       \* invocations of the onmessage handler so far
    nextCalls,      \* invocations of this.next so far
    implCalls,      \* invocations of the per-frame callable so far
    factoryCalls,   \* invocations of implementation.impl by first() so far
    factoryArgs,    \* the argument list of each of these invocations
    firstCalls,     \* entries into first() so far
    cleanupCalls,   \* invocations of this.cleanup so far
    stopCalls,      \* invocations of stop() so far
    initErrors,     \* times first() threw
    naturalDone,    \* a result carried done = true
    forcedStop      \* stop() ran between two process() calls

vars == <<implementation, processOnly, next, isDone, cleanup, args, pc, callee,
          frame, input, output, parameters, changed, result, posted, calls,
          nextCalls, implCalls, factoryCalls, cleanupCalls, stopCalls,
          initErrors, naturalDone, forcedStop, msgs, factoryArgs, firstCalls,
          refs, firstRefs, onmessage, dispatched, forwards,
          parameterDescriptors, reported, lastWrite>>

config == <<implementation, processOnly, onmessage, parameterDescriptors, reported>>
locals == <<frame, input, output, parameters, changed>>
counters == <<nextCalls, implCalls, factoryCalls, initErrors, factoryArgs, firstCalls>>
stopState == <<cleanupCalls, stopCalls, forcedStop>>
handled == <<msgs, dispatched, forwards>>

Truthy(b) == b = "true"

\* lines 19-24: the constructor creates the args object, its parameters
\* object, its input array and its env object, and takes this.port; objects
\* are told apart by a number
ConstructedObjects ==
    [args |-> 1, parameters |-> 2, input |-> 3, env |-> 4, port |-> 5]

\* lines 161-171: the implementation object simpleAudioWorklet() is given is
\* the literal {type, impl}; it has no parameterDescriptors property, whatever
\* impl declares
WrapperDescriptors(impl) == NoDescriptors

\* lines 36-38: implementation.parameterDescriptors || parameterDescriptors
\* (an array, even an empty one, is truthy)
ParameterDescriptors(impl, option) ==
    IF WrapperDescriptors(impl).has THEN WrapperDescriptors(impl).list ELSE option

\* lines 4-7, 161-171: the call of fromGenerator / fromClass / fromPure, with
\* the implementation and the options drawn from the given sets
Options(impls, pos, oms, pds) ==
    /\ implementation \in impls
    /\ processOnly \in pos
    /\ onmessage \in oms
    /\ parameterDescriptors \in pds
    /\ reported = ParameterDescriptors(implementation, parameterDescriptors)

\* constructor, lines 14-34
Construction ==
    /\ next = "first"
    /\ isDone = "false"
    /\ cleanup = "undefined"
    /\ args = [parameters |-> [k \in {} |-> 0],
               input |-> <<>>,
               env |-> [outputChannelCount |-> 2]]
    /\ refs = ConstructedObjects
    /\ firstRefs = [k \in {} |-> 0]
    /\ lastWrite = "none"
    /\ pc = "idle"
    /\ callee = "none"
    /\ frame = 0
    /\ input = <<>>
    /\ output = <<>>
    /\ parameters = [k \in {} |-> <<>>]
    /\ changed = {}
    /\ result = "none"
    /\ posted = <<>>
    /\ calls = 0
    /\ msgs = 0
    /\ dispatched = <<>>
    /\ forwards = 0
    /\ nextCalls = 0
    /\ implCalls = 0
    /\ factoryCalls = 0
    /\ factoryArgs = <<>>
    /\ firstCalls = 0
    /\ cleanupCalls = 0
    /\ stopCalls = 0
    /\ initErrors = 0
    /\ naturalDone = FALSE
    /\ forcedStop = FALSE

\* every implementation and either value of processOnly, without the
\* onmessage option (the listener of line 26 is the only one) and with the
\* default parameterDescriptors
Init == Options(Implementations, BOOLEAN, {FALSE}, {<<>>}) /\ Construction

(* --------------------------- pure operators --------------------------- *)

\* mutant of EntryGuard: the check of line 46 negated
EntryGuardInverted(done) == ~Truthy(done)

\* mutant of EntryGuard: process() without the check of line 46
EntryGuardMissing(done) == FALSE

\* line 46: if (this.isDone) throw
EntryGuard(done) == Truthy(done)

\* lines 58-65: every key of the block's parameters gets its first value
SnapshotParameters(p, params) ==
    [k \in (DOMAIN p) \cup (DOMAIN params) |->
        IF k \in DOMAIN params THEN params[k][1] ELSE p[k]]

\* mutant of Changed: no key is tracked as sample-accurate
ChangedNone(params) == {}

\* lines 56, 61-63: the keys whose array is not of length 1
Changed(params) == {k \in DOMAIN params : Len(params[k]) # 1}

\* lines 75-77: the changed keys get this frame's value
UpdateParameters(p, params, keys, f) ==
    [k \in DOMAIN p |-> IF k \in keys THEN params[k][f + 1] ELSE p[k]]

\* mutant of BlockChannelCount: env keeps the count of the constructor
BlockChannelCountConstructed(out) == 2

\* line 69: this.args.env.outputChannelCount = output.length
BlockChannelCount(out) == Len(out)

\* mutant of WrittenInPlace: the write stores a fresh copy of the object
ReplacedByCopy(ref) == ref + 10

\* lines 59, 69, 76, 80-81: this.args.parameters[key] = ...,
\* this.args.env.outputChannelCount = ..., this.args.input.length = ... and
\* this.args.input[channel] = ... write into the object that is there: the
\* member refers to the same object afterwards
WrittenInPlace(ref) == ref

\* mutant of RefillInput: the channels are copied without setting the length
RefillInputNoResize(argsInput, in, f) ==
    [channel \in 1 .. (IF Len(argsInput) > Len(in) THEN Len(argsInput) ELSE Len(in)) |->
        IF channel <= Len(in) THEN in[channel][f + 1] ELSE argsInput[channel]]

\* lines 79-82: the length is set inside the channel loop, so with no input
\* channel nothing is touched
RefillInput(argsInput, in, f) ==
    IF Len(in) = 0 THEN argsInput
    ELSE [channel \in 1 .. Len(in) |-> in[channel][f + 1]]

\* the writes the running call can make to args.input: first() runs no
\* code of a generator, and only an implementation that writes does any
CallWrites(impl, running) ==
    IF impl.writesInput /\ running = "impl" THEN InputWrites ELSE {"none"}

\* args.input after the implementation's write
ApplyWrite(argsInput, w) ==
    IF w = "write"
    THEN [channel \in 1 .. (IF Len(argsInput) <= MaxChannels
                            THEN Len(argsInput) + 1
                            ELSE Len(argsInput)) |-> Written]
    ELSE argsInput

\* lines 252-254
IsYieldOutput(r) == r.hasValue

\* lines 86-89: ({value, done: this.isDone} = value)
DestructureDone(r, done) == IF IsYieldOutput(r) THEN r.done ELSE done

\* mutant of DoneCheck: the frame is shaped whatever isDone is
DoneCheckSkipped(done) == FALSE

\* line 92
DoneCheck(done) == Truthy(done)

\* a Float32Array element after `element = v`: ToNumber(v), where an array or
\* typed array goes through its toString (join with ",")
ToNumber(v) ==
    CASE v.kind = "number" -> v.n
      [] v.kind = "undefined" -> NaN
      [] OTHER -> IF Len(v.items) = 0 THEN 0
                  ELSE IF Len(v.items) = 1 THEN v.items[1]
                  ELSE NaN

\* value[0], stored into a Float32Array element
FirstEntry(items) == IF Len(items) = 0 THEN NaN ELSE items[1]

\* mutant of Shape: a short array is copied positionally, without the mono
\* fallback
ShapePositional(v, n) ==
    IF v.kind = "array"
    THEN [channel \in 1 .. n |->
             IF channel <= Len(v.items) THEN v.items[channel] ELSE NaN]
    ELSE [channel \in 1 .. n |-> ToNumber(v)]

\* lines 99-113: the samples written at one frame, one per output channel
Shape(v, n) ==
    IF v.kind = "array"
    THEN IF Len(v.items) >= n
         THEN [channel \in 1 .. n |-> v.items[channel]]
         ELSE [channel \in 1 .. n |-> FirstEntry(v.items)]
    ELSE [channel \in 1 .. n |-> ToNumber(v)]

\* output[channel][frame] = ... for every channel
WriteFrame(out, f, samples) ==
    [channel \in 1 .. Len(out) |-> [out[channel] EXCEPT ![f + 1] = samples[channel]]]

\* mutant of KeepAlive: the processOnly option is ignored
KeepAliveAlways(po) == "true"

\* line 116
KeepAlive(po) == IF po THEN "false" ELSE "true"

\* mutant of FirstCallee: first() invokes no implementation at all
FirstCalleeDelayed(impl) == "first"

\* mutant of FirstCallee: first() resumes the generator at once
FirstCalleeResumes(impl) == "impl"

\* lines 128-143: what the call of this.first runs before it returns: for a
\* generator nothing of the implementation ("first": the iterator is created
\* suspended and 0 is returned), otherwise the per-frame callable
FirstCallee(impl) == IF impl.type = "g" THEN "first" ELSE "impl"

\* mutant of CapturedCleanup: first() does not keep iterator.return
CapturedCleanupDropped(impl) == "undefined"

\* line 131: iterator.return && iterator.return.bind(iterator)
CapturedCleanup(impl) == IF impl.hasReturn THEN "return" ELSE "undefined"

\* lines 138-146: a class instance without next makes first() throw
FirstThrows(impl) == impl.type = "c" /\ ~impl.hasNext

\* lines 129, 139: implementation.impl is called for a generator (the factory)
\* and for a class (the constructor)
FirstConstructs(impl) == impl.type \in {"g", "c"}

\* mutant of NextAfterFirst: first() never replaces this.next
NextAfterFirstKept(impl) == "first"

\* lines 130, 135, 141: this.next after a call of first(): replaced by the
\* per-frame callable, unless first() throws at line 146
NextAfterFirst(impl) == IF FirstThrows(impl) THEN "first" ELSE "resolved"

\* lines 129, 139: the arguments implementation.impl is called with:
\* implementation.impl(args) for a generator, new (implementation.impl)() for
\* a class
FactoryArguments(impl) == IF impl.type = "g" THEN <<"args">> ELSE <<>>

\* mutant of IsStopMessage: the comparison without toLowerCase()
IsStopMessageCaseSensitive(data) ==
    /\ data.kind # "null"
    /\ DataToString(data) = <<"s", "t", "o", "p">>

\* mutant of Listeners: the handler is registered before the stop listener
ListenersHandlerFirst(om) == IF om THEN <<"onmessage", "stop">> ELSE <<"stop">>

\* lines 26-33: the 'message' listeners of the port, in the order of their
\* addEventListener calls
Listeners(om) == IF om THEN <<"stop", "onmessage">> ELSE <<"stop">>

\* what the onmessage handler does with the event: it completes (it returns
\* or throws: either way the dispatch goes on) or it calls
\* e.stopImmediatePropagation(); "none" when there is no handler
HandlerOutcomes == {"completes", "halts"}

HandlerRuns(om) == IF om THEN HandlerOutcomes ELSE {"none"}

\* the listeners that run for one event: in order, up to and including one
\* that stops the propagation
Dispatch(listeners, h) ==
    IF h = "halts" /\ \E i \in 1 .. Len(listeners) : listeners[i] = "onmessage"
    THEN SubSeq(listeners, 1,
                CHOOSE i \in 1 .. Len(listeners) : listeners[i] = "onmessage")
    ELSE listeners

Ran(name, ran) == \E i \in 1 .. Len(ran) : ran[i] = name

\* line 27
IsStopMessage(data) ==
    /\ data.kind # "null"
    /\ ToLowerCase(DataToString(data)) = <<"s", "t", "o", "p">>

\* the test of line 27 for each of the messages
StopTable == [data \in MessageData |-> IsStopMessage(data)]

\* line 151: this.cleanup && this.cleanup()
CleanupInvoked(c) == c # "undefined"

(* ------------------------------ actions ------------------------------- *)

\* process(), lines 45-70: the entry check and the per-block setup
ProcessEnter ==
    /\ pc = "idle"
    /\ calls < MaxCalls
    /\ calls' = calls + 1
    /\ IF EntryGuard(isDone)
       THEN /\ result' = "RangeError"
            /\ UNCHANGED <<args, refs, pc, locals>>
       ELSE \E nIn \in 0 .. MaxChannels, nOut \in 1 .. MaxChannels,
               params \in ProcessParameters :
            /\ input' = InputBus(calls + 1, nIn)
            /\ output' = OutputBus(nOut)
            /\ parameters' = params
            /\ changed' = Changed(params)
            /\ args' = [args EXCEPT
                           !.parameters = SnapshotParameters(@, params),
                           !.env.outputChannelCount = BlockChannelCount(OutputBus(nOut))]
            /\ refs' = [refs EXCEPT !.parameters = WrittenInPlace(@),
                                    !.env = WrittenInPlace(@)]
            /\ frame' = 0
            /\ pc' = "loop"
            /\ result' = "running"
    /\ UNCHANGED <<config, next, isDone, cleanup, callee, posted,
                   counters, stopState, naturalDone, handled, firstRefs, lastWrite>>

\* process(), lines 73-85, and first(), lines 127-147: the top of one frame up
\* to the point where this.next is running
FrameCall ==
    /\ pc = "loop"
    /\ args' = [args EXCEPT
                   !.parameters = UpdateParameters(@, parameters, changed, frame),
                   !.input = RefillInput(@, input, frame)]
    /\ refs' = [refs EXCEPT !.parameters = WrittenInPlace(@),
                            !.input = WrittenInPlace(@)]
    /\ firstRefs' = IF nextCalls = 0 THEN refs' ELSE firstRefs
    /\ nextCalls' = nextCalls + 1
    /\ IF next = "first"
       THEN /\ firstCalls' = firstCalls + 1
            /\ factoryCalls' =
                   IF FirstConstructs(implementation) THEN factoryCalls + 1 ELSE factoryCalls
            /\ factoryArgs' =
                   IF FirstConstructs(implementation)
                   THEN Append(factoryArgs, FactoryArguments(implementation))
                   ELSE factoryArgs
            /\ IF FirstThrows(implementation)
               THEN /\ initErrors' = initErrors + 1
                    /\ result' = "Error"
                    /\ pc' = "returned"
                    /\ UNCHANGED <<next, cleanup, callee, implCalls>>
               ELSE /\ next' = NextAfterFirst(implementation)
                    /\ cleanup' = CapturedCleanup(implementation)
                    /\ callee' = FirstCallee(implementation)
                    /\ implCalls' = IF callee' = "impl" THEN implCalls + 1 ELSE implCalls
                    /\ pc' = "called"
                    /\ UNCHANGED <<initErrors, result>>
       ELSE /\ callee' = "impl"
            /\ implCalls' = implCalls + 1
            /\ pc' = "called"
            /\ UNCHANGED <<next, cleanup, factoryCalls, factoryArgs, firstCalls,
                           initErrors, result>>
    /\ UNCHANGED <<config, isDone, locals, posted, calls, stopState,
                   naturalDone, handled, lastWrite>>

\* process(), lines 85-116: this.next returns r; the done check, the shaping
\* of the frame, and the end of the loop
FrameReturn(r) ==
    /\ pc = "called"
    /\ Returns(implementation.type, callee, r)
    /\ isDone' = DestructureDone(r, isDone)
    /\ naturalDone' = (naturalDone \/ (IsYieldOutput(r) /\ r.done = "true"))
    /\ callee' = "none"
    /\ IF DoneCheck(isDone')
       THEN /\ posted' = Append(posted, "done")
            /\ result' = "false"
            /\ pc' = "returned"
            /\ UNCHANGED <<frame, output>>
       ELSE /\ output' = WriteFrame(output, frame, Shape(r.value, Len(output)))
            /\ posted' = posted
            /\ IF frame + 1 < Len(output[1])
               THEN /\ frame' = frame + 1
                    /\ pc' = "loop"
                    /\ result' = result
               ELSE /\ frame' = frame
                    /\ pc' = "returned"
                    /\ result' = KeepAlive(processOnly)
    /\ \E w \in CallWrites(implementation, callee) :
           /\ args' = [args EXCEPT !.input = ApplyWrite(@, w)]
           /\ lastWrite' = w
    /\ UNCHANGED <<config, next, cleanup, input, parameters, changed, calls,
                   counters, stopState, handled, refs, firstRefs>>

\* the listener of lines 26-30 and stop(), lines 149-152, for one 'message'
\* event: delivered between two process() calls, or dispatched on args.port
\* by the implementation while it runs
HandleMessage(data, h) ==
    /\ pc = "idle" \/ (pc = "called" /\ callee = "impl")
    /\ h \in HandlerRuns(onmessage)
    /\ msgs < MaxMsgs
    /\ msgs' = msgs + 1
    /\ dispatched' = Dispatch(Listeners(onmessage), h)
    /\ forwards' = IF Ran("onmessage", dispatched') THEN forwards + 1 ELSE forwards
    /\ IF Ran("stop", dispatched') /\ StopTable[data]
       THEN /\ isDone' = "true"
            /\ stopCalls' = stopCalls + 1
            /\ cleanupCalls' =
                   IF CleanupInvoked(cleanup) THEN cleanupCalls + 1 ELSE cleanupCalls
            /\ forcedStop' = (forcedStop \/ pc = "idle")
       ELSE UNCHANGED <<isDone, stopState>>
    /\ UNCHANGED <<config, next, cleanup, args, pc, callee, locals, result,
                   posted, calls, counters, naturalDone, refs, firstRefs, lastWrite>>

\* the host takes the output buffers back: the locals of process() are gone
Release ==
    /\ pc = "returned"
    /\ pc' = "idle"
    /\ frame' = 0
    /\ input' = <<>>
    /\ output' = <<>>
    /\ parameters' = [k \in {} |-> <<>>]
    /\ changed' = {}
    /\ UNCHANGED <<config, next, isDone, cleanup, args, callee, result, posted,
                   calls, counters, stopState, naturalDone, handled, refs, firstRefs,
                   lastWrite>>

Next ==
    \/ Release
    \/ ProcessEnter
    \/ FrameCall
    \/ \E r \in FrameOutputs \cup {Zero} : FrameReturn(r)
    \/ \E data \in MessageData : \E h \in HandlerOutcomes \cup {"none"} :
           HandleMessage(data, h)

Spec == Init /\ [][Next]_vars

(* The processor built with the default options: processOnly is only read
   by the value process() returns after a complete block (line 116), so
   what is written to the output bus is the same under either option. *)
InitDefault == Init /\ processOnly = FALSE

SpecDefault == InitDefault /\ [][Next]_vars

(* The processor built with an onmessage handler (and the default
   processOnly). *)
InitOnMessage == Options(Implementations, {FALSE}, {TRUE}, {<<>>}) /\ Construction

SpecOnMessage == InitOnMessage /\ [][Next]_vars

(* The processor built from a function or a class that may declare its own
   parameterDescriptors, with or without the parameterDescriptors option. *)
InitDescriptors ==
    Options(DeclaringImplementations, {FALSE}, {FALSE}, DescriptorOptions) /\ Construction

SpecDescriptors == InitDescriptors /\ [][Next]_vars

(* The processor built from an implementation whose per-frame code writes
   into args.input. *)
InitInput ==
    Options(WritingImplementations, {FALSE}, {FALSE}, {<<>>}) /\ Construction

SpecInput == InitInput /\ [][Next]_vars

(* ------------------------------ claims -------------------------------- *)

\* the 'done' messages posted on the port so far
DoneCount == Len(SelectSeq(posted, LAMBDA m : m = "done"))

AnyResult == FrameOutputs \cup {Zero}

\* C1: once a result has carried done = true, the implementation is never
\* invoked again (no call of this.next, of the per-frame callable or of the
\* factory), exactly one 'done' message has been posted and none is added,
\* and every later process() call throws the RangeError.
C1_NaturalCompletion ==
    /\ [](naturalDone => (Truthy(isDone) /\ DoneCount = 1))
    /\ [][naturalDone =>
            /\ nextCalls' = nextCalls
            /\ implCalls' = implCalls
            /\ factoryCalls' = factoryCalls
            /\ posted' = posted
            /\ (calls' # calls => result' = "RangeError")]_vars

\* C1 witness: a result carried done = true at the first invocation and a
\* later process() call was rejected
C1_Witness ==
    naturalDone /\ implCalls = 1 /\ result = "RangeError"

\* the string is "stop" in some letter casing
StopAnyCase(s) ==
    /\ Len(s) = 4
    /\ s[1] \in {"s", "S"}
    /\ s[2] \in {"t", "T"}
    /\ s[3] \in {"o", "O"}
    /\ s[4] \in {"p", "P"}

HasStopForm(d) == d.kind # "null" /\ StopAnyCase(DataToString(d))

StopForms == [d \in MessageData |-> HasStopForm(d)]

\* C2: a message whose string form is "stop" in any casing, handled between
\* two process() calls, leaves isDone true, and from then on isDone stays true
\* and every process() call throws the RangeError; a message of any other
\* string form leaves isDone as it was.
C2_ForcedStop ==
    /\ [](forcedStop => Truthy(isDone))
    /\ [][forcedStop /\ calls' # calls => result' = "RangeError"]_vars
    /\ [][msgs' # msgs =>
            \A d \in MessageData, h \in HandlerRuns(onmessage) : HandleMessage(d, h) =>
                /\ (StopForms[d] /\ pc = "idle") => (Truthy(isDone') /\ forcedStop')
                /\ ~StopForms[d] => isDone' = isDone]_vars

\* C2 witness: a stop was handled between blocks and the next process() call
\* was rejected
C2_Witness ==
    forcedStop /\ stopCalls = 1 /\ result = "RangeError" /\ DoneCount = 0

\* C3 (as claimed): never more than one 'done' message, and once a stop has
\* been handled and a process() call has been rejected, exactly one has been
\* posted.
C3_DoneOnForcedStop ==
    /\ DoneCount <= 1
    /\ (forcedStop /\ result = "RangeError") => DoneCount = 1

\* C4 (as claimed): for a generator whose iterator has a return method, once
\* a stop has been handled the cleanup has been invoked exactly once.
C4_CleanupExactlyOnce ==
    (implementation.type = "g" /\ implementation.hasReturn /\ stopCalls >= 1)
        => cleanupCalls = 1

\* C4 (amended): the cleanup is invoked once by each stop() that runs after
\* the first frame of a generator whose iterator has a return method, and by
\* nothing else: not by a stop() before the first frame, not for the other
\* variants.
C4_CleanupPerStop ==
    [][cleanupCalls' = cleanupCalls +
          (IF /\ stopCalls' = stopCalls + 1
              /\ implementation.type = "g"
              /\ implementation.hasReturn
              /\ nextCalls >= 1
           THEN 1 ELSE 0)]_vars

\* C4 witness: two stops after the first frame of a generator, each of which
\* invoked the cleanup
C4_Witness ==
    /\ implementation.type = "g"
    /\ implementation.hasReturn
    /\ nextCalls >= 1
    /\ stopCalls = 2
    /\ cleanupCalls = 2

\* C5 (as claimed): once isDone is true it is true in every later state.
C5_DoneMonotonic ==
    [][Truthy(isDone) => Truthy(isDone')]_vars

\* the first frame ever has been processed to its end
FirstFrameDone == nextCalls >= 1 /\ ~(nextCalls = 1 /\ pc = "called")

\* C6: for a generator, the first frame ever processed is written as 0 on
\* every output channel, the iterator's next is not called during it, and it
\* is called for the first time at the second frame.
C6_FirstFrameZero ==
    implementation.type = "g" =>
        /\ nextCalls <= 1 => implCalls = 0
        /\ nextCalls = 2 => implCalls = 1
        /\ (calls = 1 /\ FirstFrameDone) =>
               \A channel \in 1 .. Len(output) : output[channel][1] = 0

\* C6 witness: the generator is being resumed for the first time, at frame 1
\* of the first block, whose frame 0 holds 0 on two channels
C6_Witness ==
    /\ implementation.type = "g"
    /\ calls = 1
    /\ pc = "called"
    /\ frame = 1
    /\ implCalls = 1
    /\ Len(output) = 2
    /\ output[1][1] = 0
    /\ output[2][1] = 0

\* C7: whenever the implementation is invoked, at frame f of any block,
\* args.parameters[name] is automation[name][f] for an array of the block's
\* length and automation[name][0] for an array of length 1, whatever the
\* arrays of earlier blocks were.
C7_ParameterTracking ==
    pc = "called" =>
        \A name \in DOMAIN parameters :
            /\ name \in DOMAIN args.parameters
            /\ Len(parameters[name]) = Len(output[1]) =>
                   args.parameters[name] = parameters[name][frame + 1]
            /\ Len(parameters[name]) = 1 =>
                   args.parameters[name] = parameters[name][1]

\* C7 witness: the second block, frame 1, "gain" sample-accurate and "freq"
\* constant
C7_Witness ==
    /\ pc = "called"
    /\ calls = 2
    /\ frame = 1
    /\ Len(parameters["gain"]) = BlockSize
    /\ Len(parameters["freq"]) = 1
    /\ args.parameters["gain"] = parameters["gain"][2]

\* C8: when a frame's result is not a completion, the frame's column of the
\* output holds, on each of the N channels, entry c of an array of length
\* >= N, entry 0 of a shorter (non-empty) array, or the number returned; no
\* other sample of the output changes.
C8_OutputShaping ==
    [][(pc = "called" /\ pc' # "called" /\ ~Truthy(isDone')) => \A r \in AnyResult :
          (/\ r.value.kind \in {"number", "array"}
           /\ FrameReturn(r))
          => LET n == Len(output)
                 v == r.value
             IN  /\ Len(output') = n
                 /\ \A channel \in 1 .. n :
                       /\ (v.kind = "array" /\ Len(v.items) >= n)
                              => output'[channel][frame + 1] = v.items[channel]
                       /\ (v.kind = "array" /\ Len(v.items) < n /\ Len(v.items) >= 1)
                              => output'[channel][frame + 1] = v.items[1]
                       /\ v.kind = "number"
                              => output'[channel][frame + 1] = v.n
                       /\ \A f \in 1 .. Len(output[channel]) :
                              f # frame + 1 => output'[channel][f] = output[channel][f]
      ]_vars

\* C8 witness: a two-channel block whose frame 0 was copied positionally from
\* an array and whose frame 1 is the mono fallback of a one-entry array
C8_Witness ==
    /\ Len(output) = 2
    /\ output[1][1] = ArrayItems(2)[1]
    /\ output[2][1] = ArrayItems(2)[2]
    /\ output[1][2] = ArrayItems(1)[1]
    /\ output[2][2] = ArrayItems(1)[1]

\* C9 (as claimed): whenever the implementation is invoked, args.input has as
\* many entries as the block's input bus has channels.
C9_InputLength ==
    pc = "called" => Len(args.input) = Len(input)

\* C10 (as claimed): first() throws at most once, and an implementation that
\* makes it throw is constructed at most once.
C10_InitNotRetried ==
    /\ initErrors <= 1
    /\ FirstThrows(implementation) => factoryCalls <= 1

\* C11 (as claimed): a class whose instances have next has been constructed
\* exactly once as soon as it has been constructed at all, and its
\* constructor was called with args as its one argument.
C11_ConstructorReceivesContext ==
    (implementation.type = "c" /\ implementation.hasNext /\ factoryCalls >= 1)
        => (factoryCalls = 1 /\ factoryArgs = << <<"args">> >>)

\* the first frame ever was processed to its end without first() throwing
FirstFrameSucceeded == FirstFrameDone /\ initErrors = 0

\* C12: once the first frame has been processed successfully, this.next is
\* the resolved callable and never changes, first() has been entered exactly
\* once and is never entered again, and the generator factory or the class
\* constructor has been invoked exactly once and is never invoked again.
C12_ResolvedOnce ==
    /\ [](FirstFrameSucceeded =>
            /\ next = "resolved"
            /\ firstCalls = 1
            /\ implementation.type \in {"g", "c"} => factoryCalls = 1)
    /\ [][FirstFrameSucceeded =>
            /\ next' = next
            /\ firstCalls' = firstCalls
            /\ factoryCalls' = factoryCalls]_vars

\* C12 witness: a class instance's next is running at the first frame of the
\* second block, after one entry into first() and one construction
C12_Witness ==
    /\ implementation.type = "c"
    /\ calls = 2
    /\ pc = "called"
    /\ nextCalls = BlockSize + 1
    /\ next = "resolved"
    /\ firstCalls = 1
    /\ factoryCalls = 1

\* C13: at every call of this.next, in every block, this.args and its
\* parameters, input, env and port are the objects the constructor made, the
\* same as at the first call; no step replaces one of them.
C13_ContextReuse ==
    /\ [](pc = "called" => (refs = firstRefs /\ refs = ConstructedObjects))
    /\ [][refs' = refs]_vars

\* C13 witness: a call in the second block, with other contents in
\* args.parameters and args.input than the first block had, on the objects
\* of the first call
C13_Witness ==
    /\ pc = "called"
    /\ calls = 2
    /\ frame = 1
    /\ refs = firstRefs
    /\ Len(args.input) = 1
    /\ args.input[1] = InputSample(2, 1, 1)
    /\ args.parameters["gain"] = 32

\* C14: at every call of this.next, env.outputChannelCount is the channel
\* count of the output bus of the running process() call, whatever the
\* constructor's count (2) or the previous block's was, and every frame
\* already shaped in the block has been written on all of these channels.
C14_BlockChannelCount ==
    pc = "called" =>
        /\ args.env.outputChannelCount = Len(output)
        /\ \A channel \in 1 .. Len(output) : \A f \in 1 .. frame :
               output[channel][f] # HostFill

\* C14 witness: a call at frame 1 of the second block, whose output bus has
\* one channel where the constructor's count was 2
C14_Witness ==
    /\ pc = "called"
    /\ calls = 2
    /\ frame = 1
    /\ Len(output) = 1
    /\ args.env.outputChannelCount = 1
    /\ output[1][1] # HostFill

\* C15: a process() call whose frame loop runs to its end returns true when
\* processOnly is false and false when processOnly is true, with or without
\* input channels; a process() call that ends at a frame whose result left
\* isDone true returns false under either option.
C15_ContinuationSignal ==
    [][(pc = "called" /\ pc' = "returned") =>
          IF Truthy(isDone')
          THEN result' = "false"
          ELSE /\ frame = Len(output[1]) - 1
               /\ processOnly => result' = "false"
               /\ ~processOnly => result' = "true"]_vars

\* C15 witness: with processOnly set, a block with two input channels ran to
\* its end without completion and process() returned false
C15_Witness ==
    /\ processOnly
    /\ pc = "returned"
    /\ result = "false"
    /\ ~Truthy(isDone)
    /\ DoneCount = 0
    /\ Len(input) = 2
    /\ output[1][BlockSize] # HostFill

\* C16: with an onmessage handler configured, the handler has been invoked
\* once for each 'message' event handled, stop messages included; for each
\* event the stop listener runs first and the handler second; and whether
\* the handler returns, throws or stops the propagation, a message of string
\* form "stop" calls stop() and leaves isDone true.
C16_Forwarding ==
    /\ [](onmessage => forwards = msgs)
    /\ [][(onmessage /\ msgs' # msgs) =>
            /\ forwards' = forwards + 1
            /\ dispatched' = <<"stop", "onmessage">>
            /\ \A d \in MessageData, h \in HandlerOutcomes :
                   (StopForms[d] /\ HandleMessage(d, h)) =>
                       (Truthy(isDone') /\ stopCalls' = stopCalls + 1)]_vars

\* C16 witness: two events were handled with a handler configured, one of
\* them a stop, and the handler ran for both
C16_Witness ==
    /\ onmessage
    /\ msgs = 2
    /\ forwards = 2
    /\ stopCalls = 1
    /\ Truthy(isDone)
    /\ dispatched = <<"stop", "onmessage">>

\* C17 (as claimed): when a frame's result is a Float32Array and not a
\* completion, the frame's column of the output holds, on each of the N
\* channels, entry c of a Float32Array of length >= N and entry 0 of a
\* shorter one.
C17_Float32Shaping ==
    [][(pc = "called" /\ pc' # "called" /\ ~Truthy(isDone')) => \A r \in AnyResult :
          (/\ r.value.kind = "float32array"
           /\ FrameReturn(r))
          => LET n == Len(output)
                 v == r.value
             IN  \A channel \in 1 .. n :
                    /\ Len(v.items) >= n
                           => output'[channel][frame + 1] = v.items[channel]
                    /\ Len(v.items) < n
                           => output'[channel][frame + 1] = v.items[1]
      ]_vars

\* C18 (as claimed): the static getter returns the declaration of the
\* function or class that was handed in when there is one, and the
\* parameterDescriptors option otherwise.
C18_DescriptorsOverride ==
    reported = IF implementation.declared.has
               THEN implementation.declared.list
               ELSE parameterDescriptors

\* C19 (as claimed): when stop() has run while a block is in progress (isDone
\* is true while this.next is running), the frame's result, whatever its
\* shape, writes no output frame, leaves isDone true and ends the process()
\* call.
C19_MidBlockStopKept ==
    [][(pc = "called" /\ Truthy(isDone) /\ pc' # "called") =>
          /\ output' = output
          /\ Truthy(isDone')
          /\ pc' = "returned"]_vars

\* C20: this.next is called once per frame; for a function and for a class
\* whose instances have next, the per-frame callable has been invoked as
\* often as frames have been started, the first one included, so the frame
\* being shaped is the result of the invocation of the same number; for a
\* generator the iterator has been resumed once less than frames have been
\* started, whatever the number of blocks, and while global frame n >= 1 is
\* produced the n-th resume is the one running.
C20_InvocationCount ==
    /\ implementation.type = "p" => implCalls = nextCalls
    /\ (implementation.type = "c" /\ implementation.hasNext) => implCalls = nextCalls
    /\ implementation.type = "g" =>
           /\ implCalls = IF nextCalls = 0 THEN 0 ELSE nextCalls - 1
           /\ (pc = "called" /\ nextCalls = 1) => callee = "first"
           /\ (pc = "called" /\ nextCalls > 1) => callee = "impl"
    /\ (pc = "called" /\ implementation.type \in {"p", "c"}) => callee = "impl"
    /\ (pc = "called" /\ calls = 1) => nextCalls = frame + 1

\* C20 witness: the first frame of the second block of a generator: frame
\* number BlockSize overall, produced by resume number BlockSize
C20_Witness ==
    /\ implementation.type = "g"
    /\ calls = 2
    /\ pc = "called"
    /\ callee = "impl"
    /\ frame = 0
    /\ nextCalls = BlockSize + 1
    /\ implCalls = BlockSize

\* C21: whenever this.next is called at frame f of a block whose input bus
\* has C >= 1 channels, args.input has exactly C entries and entry c is the
\* bus's sample of channel c at frame f, whatever the implementation wrote
\* into args.input during earlier calls.
C21_InputRefill ==
    (pc = "called" /\ Len(input) >= 1) =>
        /\ Len(args.input) = Len(input)
        /\ \A channel \in 1 .. Len(input) :
               args.input[channel] = input[channel][frame + 1]

\* C21 witness: the call at frame 1 of a block with two input channels, after
\* the call at frame 0 wrote into args.input
C21_Witness ==
    /\ pc = "called"
    /\ callee = "impl"
    /\ frame = 1
    /\ lastWrite = "write"
    /\ Len(input) = 2
    /\ args.input = <<input[1][2], input[2][2]>>

\* C22: when a process() call has ended because the result at frame k
\* carried done = true, every channel of its output holds written samples
\* at the frames before k and the host's samples at frame k and after it:
\* the value that came with done = true was not written.
C22_EarlyTermination ==
    (pc = "returned" /\ naturalDone) =>
        \A channel \in 1 .. Len(output) : \A f \in 1 .. Len(output[channel]) :
            /\ f <= frame => output[channel][f] # HostFill
            /\ f > frame => output[channel][f] = HostFill

\* C22 witness: a two-channel block ended by done = true at frame 1, with
\* frame 0 written and frame 1 as the host supplied it
C22_Witness ==
    /\ pc = "returned"
    /\ naturalDone
    /\ result = "false"
    /\ frame = 1
    /\ Len(output) = 2
    /\ output[1][1] # HostFill
    /\ output[2][1] # HostFill
    /\ output[1][2] = HostFill
    /\ output[2][2] = HostFill

\* C23: a process() call made while isDone is true throws the RangeError
\* and changes nothing: args.parameters, args.input and args.env, the
\* output buffers and isDone are as before, this.next, the per-frame
\* callable, the factory and the cleanup are not invoked, and nothing is
\* posted on the port.
C23_RejectedCallNoEffect ==
    [][(calls' # calls /\ Truthy(isDone)) =>
          /\ result' = "RangeError"
          /\ args' = args
          /\ output' = output
          /\ isDone' = isDone
          /\ pc' = "idle"
          /\ nextCalls' = nextCalls
          /\ implCalls' = implCalls
          /\ factoryCalls' = factoryCalls
          /\ cleanupCalls' = cleanupCalls
          /\ posted' = posted]_vars

\* C23 witness: the second process() call was rejected after the first one
\* had ended with done = true at its second frame; args still holds what
\* the first call left
C23_Witness ==
    /\ calls = 2
    /\ result = "RangeError"
    /\ Truthy(isDone)
    /\ DoneCount = 1
    /\ nextCalls = 2
    /\ args.parameters["gain"] = 32
    /\ args.env.outputChannelCount = 1

====
